---- MODULE Spec2Model ----
(***************************************************************************)
(* EvoViTAdapter (mmdet_custom/models/backbones/evovit_adapter.py):        *)
(* construction of the backbone from its keyword arguments, and one        *)
(* forward call as the sequence of operations it invokes, the shapes and   *)
(* token sequences it threads through them, and the four levels returned.  *)
(* Tensors are modelled by their token axis (a sequence of tokens) or by   *)
(* their spatial size; batch and channel axes are not modelled.            *)
(***************************************************************************)
EXTENDS Integers, Sequences, FiniteSets, TLC

\* ---- bounds ----
MaxBlocks == 2      \* depth of the base transformer ranges over 1..MaxBlocks
MaxStages == 2      \* interaction_indexes lists have 1..MaxStages ranges
MaxGrid == 3        \* token grids H, W range over MinGrid..MaxGrid
MaxClsAttn == 1     \* values an interaction stage may return for cls_attn

\* ---- program constants ----
PatchSize == 16         \* patch stride of the base transformer
PretrainSize == 224     \* default pretrain_size
MinGrid == 2            \* smallest grid with a non-empty level-32 map

Absent == "absent"      \* a keyword that was not passed
Min(a, b) == IF a < b THEN a ELSE b

\* ---- constructor arguments ----
NoList == [isNone |-> TRUE, val |-> <<>>]          \* interaction_indexes=None
SomeList(s) == [isNone |-> FALSE, val |-> s]

SeqsUpTo(S, n) == UNION {[1..k -> S] : k \in 1..n}
IndexPairs == (0..MaxBlocks) \X (0..MaxBlocks)
IndexLists == {NoList} \cup {SomeList(s) : s \in SeqsUpTo(IndexPairs, MaxStages)}

CtorArgs ==
  [window_attn : {Absent, "False", "True"},
   window_size : {Absent, "0", "14"},
   layer_scale : {Absent, "False", "True"},
   pretrained : {Absent, "None", "ckpt.pth"},
   interaction_indexes : IndexLists,
   add_vit_feature : BOOLEAN,
   use_extra_extractor : BOOLEAN,
   depth : 1..MaxBlocks,
   pretrain_size : {PretrainSize}]

\* every range names existing blocks, first index <= last index
RangesInBounds(idx, depth) ==
  \A i \in 1..Len(idx) : 0 <= idx[i][1] /\ idx[i][1] <= idx[i][2] /\ idx[i][2] < depth

\* the arguments of a configuration file that passes the four keyword checks
\* and whose ranges name existing blocks (in any arrangement)
UsualArgs ==
  {a \in [window_attn : {"False"}, window_size : {"14"},
          layer_scale : {"False"}, pretrained : {"None"},
          interaction_indexes : IndexLists \ {NoList},
          add_vit_feature : BOOLEAN, use_extra_extractor : {TRUE},
          depth : 1..MaxBlocks, pretrain_size : {PretrainSize}] :
     RangesInBounds(a.interaction_indexes.val, a.depth)}

\* ---- __init__ ----
NoSelf ==
  [stage_wise_prune |-> FALSE, num_block |-> 0, blocks |-> <<>>,
   pretrain_size |-> <<0, 0>>, interaction_indexes |-> NoList,
   add_vit_feature |-> FALSE, interactions |-> <<>>]

Raise(err, done) == [status |-> "Failed", error |-> err, built |-> done, self |-> NoSelf]

\* line 27: assert kwargs.pop('layer_scale') is False
LayerScaleAssert_mut(v) == TRUE
LayerScaleAssert(v) == v = "False"

\* line 28: assert kwargs.pop('pretrained') is None
PretrainedAssert(v) == v = "None"

\* line 52: extra_extractor of stage i (0-based) among n stages
ExtraExtractor_mut(i, n, use) == (i = n - 1) \/ use
ExtraExtractor(i, n, use) == (IF i = n - 1 THEN TRUE ELSE FALSE) /\ use

\* lines 47-54: one InteractionBlockForEvo per entry of interaction_indexes
Interactions(idx, use) ==
  [i \in 1..Len(idx) |-> [extra_extractor |-> ExtraExtractor(i - 1, Len(idx), use)]]

\* super().__init__: the base transformer with its list of blocks
BaseBlocks(depth) == [k \in 1..depth |-> k - 1]

AllBuilt == <<"base", "level_embed", "spm", "interactions", "up",
              "norm1", "norm2", "norm3", "norm4">>

init(a) ==
  IF a.window_attn = Absent THEN Raise("KeyError", <<>>)
  ELSE IF a.window_size = Absent THEN Raise("KeyError", <<>>)
  ELSE IF a.layer_scale = Absent THEN Raise("KeyError", <<>>)
  ELSE IF ~LayerScaleAssert(a.layer_scale) THEN Raise("AssertionError", <<>>)
  ELSE IF a.pretrained = Absent THEN Raise("KeyError", <<>>)
  ELSE IF ~PretrainedAssert(a.pretrained) THEN Raise("AssertionError", <<>>)
  ELSE IF a.interaction_indexes.isNone
       THEN Raise("TypeError", <<"base", "level_embed", "spm">>)
  ELSE [status |-> "Ready", error |-> "none", built |-> AllBuilt,
        self |-> [stage_wise_prune |-> FALSE,
                  num_block |-> Len(BaseBlocks(a.depth)),
                  blocks |-> BaseBlocks(a.depth),
                  pretrain_size |-> <<a.pretrain_size, a.pretrain_size>>,
                  interaction_indexes |-> a.interaction_indexes,
                  add_vit_feature |-> a.add_vit_feature,
                  interactions |-> Interactions(a.interaction_indexes.val,
                                                a.use_extra_extractor)]]

VARIABLES status, self, built, error, args, last
vars == <<status, self, built, error, args, last>>

NoArgs ==
  [window_attn |-> Absent, window_size |-> Absent, layer_scale |-> Absent,
   pretrained |-> Absent, interaction_indexes |-> NoList,
   add_vit_feature |-> FALSE, use_extra_extractor |-> FALSE,
   depth |-> 0, pretrain_size |-> 0]
NoCall == [called |-> FALSE]

Init ==
  /\ status = "Uninitialized"
  /\ self = NoSelf
  /\ built = <<>>
  /\ error = "none"
  /\ args = NoArgs
  /\ last = NoCall

\* ---- tensors ----
\* a token of the conv sequence: <<level it came from, position, index of the
\* level embedding added to it (-1: none), number of interaction stages applied>>
Tok(src, pos) == <<src, pos, -1, 0>>
NoMap == [h |-> 0, w |-> 0, parts |-> <<>>]
Map(h, w, parts) == [h |-> h, w |-> w, parts |-> parts]

\* Python slicing s[a:b] and s[a:] for 0 <= a, 0 <= b (0-based, clamped)
PySlice(s, a, b) == SubSeq(s, a + 1, Min(b, Len(s)))
PySliceFrom(s, a) == SubSeq(s, a + 1, Len(s))

\* input images: every grid MinGrid..MaxGrid on each side
Images == {[h |-> PatchSize * gh, w |-> PatchSize * gw] : gh, gw \in MinGrid..MaxGrid}

\* SpatialPriorModule: four maps at strides 4, 8, 16, 32; the three coarser
\* ones are returned flattened to token sequences
spm(x) ==
  [c1 |-> Map(x.h \div 4, x.w \div 4, <<"c1">>),
   c2 |-> [k \in 1..((x.h \div 8) * (x.w \div 8)) |-> Tok(2, k)],
   c3 |-> [k \in 1..((x.h \div 16) * (x.w \div 16)) |-> Tok(3, k)],
   c4 |-> [k \in 1..((x.h \div 32) * (x.w \div 32)) |-> Tok(4, k)]]

\* patch embedding of the base transformer: (tokens, H, W)
patch_embed(x) ==
  [H |-> x.h \div PatchSize, W |-> x.w \div PatchSize,
   n |-> (x.h \div PatchSize) * (x.w \div PatchSize)]

\* lines 93-97
AddEmbed(c, lvl) == [k \in 1..Len(c) |-> <<c[k][1], c[k][2], lvl, c[k][4]>>]
add_level_embed(c2, c3, c4) ==
  [c2 |-> AddEmbed(c2, 0), c3 |-> AddEmbed(c3, 1), c4 |-> AddEmbed(c4, 2)]

\* line 106: torch.cat([c2, c3, c4], dim=1)
Cat(c2, c3, c4) == c2 \o c3 \o c4

\* InteractionBlockForEvo.__call__: every conv token and the token sequence
\* are updated, lengths are kept, and a new cls_attn value comes back
Layer(xt, c, blocks, cls_attn, ret) ==
  [x |-> [n |-> xt.n, upd |-> xt.upd + 1],
   c |-> [k \in 1..Len(c) |-> <<c[k][1], c[k][2], c[k][3], c[k][4] + 1>>],
   cls_attn |-> ret]

\* ---- forward ----
\* the locals of one call; lens and stages record values the call computed
\* on the way
Frame0(x) ==
  [called |-> TRUE, error |-> "none", trace |-> <<>>, x |-> x,
   H |-> 0, W |-> 0, c1 |-> NoMap, c2 |-> <<>>, c3 |-> <<>>, c4 |-> <<>>,
   c |-> <<>>, xt |-> [n |-> 0, upd |-> 0], cls_attn |-> -1,
   stages |-> <<>>, lens |-> <<0, 0, 0>>,
   m2 |-> NoMap, m3 |-> NoMap, m4 |-> NoMap, out |-> <<>>]

\* line 100: assert self.stage_wise_prune is False
PruneAssert_mut(slf) == TRUE
PruneAssert(slf) == slf.stage_wise_prune = FALSE

\* lines 101-106
StepSpm(f) ==
  LET p == spm(f.x)
      e == add_level_embed(p.c2, p.c3, p.c4)
  IN [f EXCEPT !.trace = @ \o <<"deform_inputs", "spm", "add_level_embed", "cat">>,
               !.c1 = p.c1, !.c2 = e.c2, !.c3 = e.c3, !.c4 = e.c4,
               !.c = Cat(e.c2, e.c3, e.c4),
               !.lens = <<Len(e.c2), Len(e.c3), Len(e.c4)>>]

\* lines 109-116
StepPatch(f) ==
  LET pe == patch_embed(f.x)
  IN [f EXCEPT !.trace = @ \o <<"patch_embed", "get_pos_embed">>,
               !.H = pe.H, !.W = pe.W, !.xt = [n |-> pe.n, upd |-> 0],
               !.cls_attn = 0]

\* line 121: self.blocks[indexes[0]:indexes[-1] + 1]
StageBlocks_mut(blocks, indexes) == PySlice(blocks, indexes[1], indexes[Len(indexes)])
StageBlocks(blocks, indexes) == PySlice(blocks, indexes[1], indexes[Len(indexes)] + 1)

\* line 121: cls_token, x, c, cls_attn = layer(...)
LoopCarry_mut(f, r) == [f EXCEPT !.xt = r.x, !.c = r.c]
LoopCarry(f, r) == [f EXCEPT !.xt = r.x, !.c = r.c, !.cls_attn = r.cls_attn]

\* lines 119-124: for i, layer in enumerate(self.interactions)
RECURSIVE Loop(_, _, _, _)
Loop(slf, f, outs, i) ==
  IF i > Len(slf.interactions) THEN f
  ELSE LET indexes == slf.interaction_indexes.val[i]
           blocks == StageBlocks(slf.blocks, indexes)
           r == Layer(f.xt, f.c, blocks, f.cls_attn, outs[i])
           g == [f EXCEPT !.trace = @ \o <<"interaction">>,
                          !.stages = @ \o <<[stage |-> i - 1, indexes |-> indexes,
                                             blocks |-> blocks,
                                             cls_in |-> f.cls_attn,
                                             cls_out |-> r.cls_attn]>>]
       IN Loop(slf, LoopCarry(g, r), outs, i + 1)

StepLoop(slf, f, outs) == Loop(slf, f, outs, 1)

\* lines 127-129: each right-hand side reads the variables as they are then
Split_mut(c, c2, c3) ==
  LET n2 == PySlice(c, 0, Len(c2))
      n3 == PySlice(c, Len(n2), Len(c3))
      n4 == PySliceFrom(c, Len(n2) + Len(n3))
  IN [c2 |-> n2, c3 |-> n3, c4 |-> n4]
Split(c, c2, c3) ==
  LET n2 == PySlice(c, 0, Len(c2))
      n3 == PySlice(c, Len(n2), Len(n2) + Len(c3))
      n4 == PySliceFrom(c, Len(n2) + Len(n3))
  IN [c2 |-> n2, c3 |-> n3, c4 |-> n4]

StepSplit(f) ==
  LET s == Split(f.c, f.c2, f.c3)
  IN [f EXCEPT !.trace = @ \o <<"split">>,
               !.c2 = s.c2, !.c3 = s.c3, !.c4 = s.c4]

\* lines 131-133: the spatial sizes the three slices are viewed as
ViewDims_mut(H, W) == <<<<H * 2, W * 2>>, <<H, W>>, <<H, W>>>>
ViewDims(H, W) == <<<<H * 2, W * 2>>, <<H, W>>, <<H \div 2, W \div 2>>>>

\* Tensor.view: the element count must match
ViewOk(c, d) == Len(c) = d[1] * d[2]

StepReshape(f) ==
  LET d == ViewDims(f.H, f.W)
  IN IF ~(ViewOk(f.c2, d[1]) /\ ViewOk(f.c3, d[2]) /\ ViewOk(f.c4, d[3]))
     THEN [f EXCEPT !.error = "RuntimeError", !.trace = @ \o <<"view">>]
     ELSE [f EXCEPT !.trace = @ \o <<"view", "view", "view">>,
                    !.m2 = Map(d[1][1], d[1][2], <<"c2">>),
                    !.m3 = Map(d[2][1], d[2][2], <<"c3">>),
                    !.m4 = Map(d[3][1], d[3][2], <<"c4">>)]

\* line 55: nn.ConvTranspose2d(embed_dim, embed_dim, 2, 2)
up(m) == Map(2 * m.h, 2 * m.w, <<"up(c2)">>)

\* elementwise + of two maps
SameSize(a, b) == a.h = b.h /\ a.w = b.w
Plus(a, b) == Map(a.h, a.w, a.parts \o b.parts)

\* line 134
StepUp(f) ==
  IF f.error # "none" THEN f
  ELSE IF ~SameSize(up(f.m2), f.c1)
       THEN [f EXCEPT !.error = "RuntimeError", !.trace = @ \o <<"up">>]
       ELSE [f EXCEPT !.trace = @ \o <<"up">>, !.c1 = Plus(up(f.m2), f.c1)]

\* F.interpolate(m, scale_factor=num/den): floor(size * scale_factor)
Interpolate(m, num, den, name) == Map((m.h * num) \div den, (m.w * num) \div den, <<name>>)

\* line 136: if self.add_vit_feature
UseVit_mut(slf) == TRUE
UseVit(slf) == slf.add_vit_feature

\* lines 136-141
StepVit(slf, f) ==
  IF f.error # "none" \/ ~UseVit(slf) THEN f
  ELSE LET x3 == Map(f.H, f.W, <<"x3">>)
           x1 == Interpolate(x3, 4, 1, "x1")
           x2 == Interpolate(x3, 2, 1, "x2")
           x4 == Interpolate(x3, 1, 2, "x4")
           tr == f.trace \o <<"x.view", "interpolate", "interpolate", "interpolate">>
       IN IF f.xt.n # f.H * f.W
             \/ ~(SameSize(f.c1, x1) /\ SameSize(f.m2, x2)
                  /\ SameSize(f.m3, x3) /\ SameSize(f.m4, x4))
          THEN [f EXCEPT !.error = "RuntimeError", !.trace = tr]
          ELSE [f EXCEPT !.trace = tr, !.c1 = Plus(f.c1, x1), !.m2 = Plus(f.m2, x2),
                         !.m3 = Plus(f.m3, x3), !.m4 = Plus(f.m4, x4)]

\* lines 144-148
StepNorm(f) ==
  IF f.error # "none" THEN f
  ELSE [f EXCEPT !.trace = @ \o <<"norm1", "norm2", "norm3", "norm4">>,
                 !.out = <<f.c1, f.m2, f.m3, f.m4>>]

forward(slf, x, outs) ==
  IF ~PruneAssert(slf)
  THEN [Frame0(x) EXCEPT !.error = "AssertionError"]
  ELSE StepNorm(StepVit(slf, StepUp(StepReshape(StepSplit(
         StepLoop(slf, StepPatch(StepSpm(Frame0(x))), outs))))))

ClsAttnVals == 0..MaxClsAttn

\* a caller constructs the backbone with arguments drawn from the set A
Construct(A) ==
  /\ status = "Uninitialized"
  /\ \E a \in A :
       LET r == init(a) IN
         /\ status' = r.status
         /\ self' = r.self
         /\ built' = r.built
         /\ error' = r.error
         /\ args' = a
  /\ UNCHANGED last

\* the flag is a plain attribute; a caller may assign it between calls
SetStageWisePrune ==
  /\ status = "Ready"
  /\ last = NoCall
  /\ \E b \in BOOLEAN : b # self.stage_wise_prune
       /\ self' = [self EXCEPT !.stage_wise_prune = b]
  /\ UNCHANGED <<status, built, error, args, last>>

\* one call of forward on an image, with the values the stages return;
\* last holds the frame of the call until the caller lets go of the result
Forward ==
  /\ status = "Ready"
  /\ last = NoCall
  /\ \E x \in Images : \E outs \in [1..Len(self.interactions) -> ClsAttnVals] :
       last' = forward(self, x, outs)
  /\ UNCHANGED <<status, self, built, error, args>>

\* the per-call tensors are dropped once the result has been returned
Discard ==
  /\ last # NoCall
  /\ last' = NoCall
  /\ UNCHANGED <<status, self, built, error, args>>

Next == Construct(UsualArgs) \/ SetStageWisePrune \/ Forward \/ Discard
Spec == Init /\ [][Next]_vars

NextCtor == Construct(CtorArgs)
SpecCtor == Init /\ [][NextCtor]_vars

\* ---- properties ----
Prefix(s, n) == SubSeq(s, 1, n)
RECURSIVE FlattenBlocks(_)
FlattenBlocks(st) == IF st = <<>> THEN <<>> ELSE st[1].blocks \o FlattenBlocks(Tail(st))
RECURSIVE SumBlocks(_)
SumBlocks(st) == IF st = <<>> THEN 0 ELSE Len(st[1].blocks) + SumBlocks(Tail(st))

\* idx partitions blocks 0..nb-1 into contiguous ascending ranges
IsPartition(idx, nb) ==
  /\ Len(idx) >= 1
  /\ idx[1][1] = 0
  /\ idx[Len(idx)][2] = nb - 1
  /\ \A i \in 1..Len(idx) : idx[i][1] <= idx[i][2]
  /\ \A i \in 1..(Len(idx) - 1) : idx[i + 1][1] = idx[i][2] + 1

Ran == last.called /\ ~self.stage_wise_prune

\* C1: a forward call made while stage_wise_prune is true fails with the
\* assertion error, invokes none of the operations of forward, and returns no
\* pyramid.
C1_PruneFailsFast ==
  (last.called /\ self.stage_wise_prune) =>
     /\ last.error = "AssertionError"
     /\ last.trace = <<>>
     /\ last.out = <<>>
     /\ last.stages = <<>>
C1_Witness ==
  /\ last.called /\ self.stage_wise_prune /\ last.error = "AssertionError"
  /\ Len(self.interactions) = 2

\* C2: construction with layer_scale true or with a pretrained path fails
\* before anything is built (no base transformer, no sub-module), whatever
\* window_attn and window_size are; the failure is the assertion's whenever
\* the keywords popped before it were all supplied.
C2_RejectedUpFront ==
  (status # "Uninitialized"
     /\ (args.layer_scale = "True" \/ args.pretrained = "ckpt.pth")) =>
     /\ status = "Failed"
     /\ built = <<>>
     /\ self = NoSelf
     /\ (args.window_attn # Absent /\ args.window_size # Absent
           /\ args.layer_scale # Absent) => error = "AssertionError"
C2_Witness ==
  /\ status = "Failed" /\ error = "AssertionError" /\ built = <<>>
  /\ args.layer_scale = "True" /\ args.pretrained = "None"
  /\ args.window_attn = "True" /\ args.window_size = "14"
  /\ ~args.interaction_indexes.isNone
  /\ IsPartition(args.interaction_indexes.val, args.depth)

\* C3 (as claimed): construction fails whenever interaction_indexes is missing
\* or is not a partition of the blocks, so a Ready backbone holds a partition
\* of blocks 0..num_block-1 with one range per interaction stage.
C3_MalformedRejected ==
  status # "Uninitialized" =>
     /\ (args.interaction_indexes.isNone
           \/ ~IsPartition(args.interaction_indexes.val, args.depth))
          => status = "Failed"
     /\ status = "Ready" =>
          /\ IsPartition(self.interaction_indexes.val, self.num_block)
          /\ Len(self.interactions) = Len(self.interaction_indexes.val)

\* C4 (as claimed): the outcome of construction (success or failure, and the
\* backbone built) is the same for every value of window_attn and window_size,
\* supplied or not.
C4_WindowFlagsIgnored ==
  status # "Uninitialized" =>
     \A wa \in {Absent, "False", "True"} : \A ws \in {Absent, "0", "14"} :
        LET r == init([args EXCEPT !.window_attn = wa, !.window_size = ws])
        IN r.status = status /\ r.self = self

\* C5: when interaction_indexes partitions the blocks into N ranges, a forward
\* call invokes the N stages once each in list order, stage i gets exactly the
\* blocks first..last of range i, and over the call the blocks are handed out
\* once each in ascending order, their counts summing to num_block.
C5_BlocksHandedOutOnce ==
  (Ran /\ IsPartition(self.interaction_indexes.val, self.num_block)) =>
     LET idx == self.interaction_indexes.val
         st == last.stages
     IN /\ Len(st) = Len(idx)
        /\ Len(st) = Len(self.interactions)
        /\ Cardinality({k \in 1..Len(last.trace) : last.trace[k] = "interaction"}) = Len(idx)
        /\ \A i \in 1..Len(st) :
             /\ st[i].stage = i - 1
             /\ st[i].indexes = idx[i]
             /\ st[i].blocks = [k \in 1..(idx[i][2] - idx[i][1] + 1) |-> idx[i][1] + k - 1]
        /\ FlattenBlocks(st) = [k \in 1..self.num_block |-> k - 1]
        /\ SumBlocks(st) = self.num_block
C5_Witness ==
  /\ Ran /\ last.error = "none"
  /\ IsPartition(self.interaction_indexes.val, self.num_block)
  /\ Len(last.stages) = 2
  /\ last.stages[1].blocks = <<0>>
  /\ last.stages[2].blocks = <<1>>

\* C6: after the loop the fused sequence c is cut into three contiguous slices,
\* level-8 first, whose lengths are those of the three levels concatenated
\* before the loop; the lengths sum to the sequence's length and the slices
\* concatenated again give the fused sequence.
C6_SplitRoundTrip ==
  Ran =>
     /\ Len(last.c2) = last.lens[1]
     /\ Len(last.c3) = last.lens[2]
     /\ Len(last.c4) = last.lens[3]
     /\ Len(last.c2) + Len(last.c3) + Len(last.c4) = Len(last.c)
     /\ Len(last.c) = last.lens[1] + last.lens[2] + last.lens[3]
     /\ last.c2 \o last.c3 \o last.c4 = last.c
     /\ \A k \in 1..Len(last.c2) : last.c2[k][1] = 2 /\ last.c2[k][2] = k /\ last.c2[k][3] = 0
     /\ \A k \in 1..Len(last.c3) : last.c3[k][1] = 3 /\ last.c3[k][2] = k /\ last.c3[k][3] = 1
     /\ \A k \in 1..Len(last.c4) : last.c4[k][1] = 4 /\ last.c4[k][2] = k /\ last.c4[k][3] = 2
C6_Witness ==
  /\ Ran /\ last.error = "none"
  /\ last.H = 2 /\ last.W = 3
  /\ Len(last.stages) = 2
  /\ last.lens = <<24, 6, 1>>
  /\ \A k \in 1..Len(last.c) : last.c[k][4] = 2

C8_NoVitFeature ==
  (Ran /\ ~self.add_vit_feature) =>
     /\ \A k \in 1..Len(last.trace) : last.trace[k] \notin {"x.view", "interpolate"}
     /\ Len(last.out) = 4
     /\ last.out[1].parts = <<"up(c2)", "c1">>
     /\ last.out[2].parts = <<"c2">>
     /\ last.out[3].parts = <<"c3">>
     /\ last.out[4].parts = <<"c4">>
     /\ SubSeq(last.trace, Len(last.trace) - 4, Len(last.trace))
          = <<"up", "norm1", "norm2", "norm3", "norm4">>
C8_Witness ==
  /\ Ran /\ ~self.add_vit_feature /\ last.error = "none"
  /\ Len(last.out) = 4 /\ Len(last.stages) = 2

\* C9: among the N interaction stages, stage i has the extra extractor exactly
\* when i = N-1 and use_extra_extractor is true.
C9_ExtraExtractorLastOnly ==
  status = "Ready" =>
     LET n == Len(args.interaction_indexes.val)
     IN /\ Len(self.interactions) = n
        /\ \A i \in 1..n :
             self.interactions[i].extra_extractor
               <=> (i = n /\ args.use_extra_extractor)
C9_Witness ==
  /\ status = "Ready" /\ args.use_extra_extractor
  /\ Len(self.interactions) = 2
  /\ self.interactions[2].extra_extractor
  /\ ~self.interactions[1].extra_extractor

\* C10: a forward call leaves the backbone's configuration as it was, and in
\* every call the first stage receives cls_attn = 0 and stage i receives what
\* stage i-1 returned.
Threaded ==
  Ran =>
     LET st == last.stages
     IN /\ Len(st) = Len(self.interactions)
        /\ \A i \in 1..Len(st) :
             st[i].cls_in = (IF i = 1 THEN 0 ELSE st[i - 1].cls_out)
        /\ last.cls_attn = (IF st = <<>> THEN 0 ELSE st[Len(st)].cls_out)
ConfigKept ==
  (last = NoCall /\ last' # NoCall) =>
     /\ self' = self /\ status' = status /\ built' = built /\ args' = args
     /\ Len(self'.interactions) = Len(self.interaction_indexes.val)
C10_StatelessForward == [](Threaded) /\ [][ConfigKept]_vars
C10_Witness ==
  /\ Ran /\ last.error = "none"
  /\ Len(last.stages) = 2
  /\ last.stages[1].cls_out = 1
  /\ last.stages[2].cls_in = 1
====
